---- MODULE Spec2Model ----
(***************************************************************************)
(* Model of backend/pkg/kafka/partition_consumer.go: one PartitionConsumer  *)
(* task (Run), the filter closure built by SetupInterpreter, its watchdog   *)
(* goroutines, and the task's environment (broker subscription, context,    *)
(* the receiver of MessageCh and DoneCh).                                   *)
(***************************************************************************)
EXTENDS Integers, Sequences, FiniteSets

\* ------------------------------------------------------------------ bounds

\* Highest offset the broker delivers and the highest EndOffset of a request.
MaxOffset == 2
\* Highest StartOffset of a request.
MaxStart == 0
\* Highest MaxMessageCount of a request.
MaxCount == 2
\* The broker may skip up to MaxGap offsets between two records (compaction).
MaxGap == 1
\* Records the subscription's Messages() channel buffers.
ChanCap == 1
\* Evaluations of the filter each of the two tasks makes (two-task model).
MaxEvals == 3
\* Longest byte sequence given to getValue.
MaxLen == 5

\* ------------------------------------------------------------------- state

VARIABLES
    Req,            \* *PartitionConsumeRequest: StartOffset, EndOffset, MaxMessageCount
    hasScript,      \* FilterInterpreterCode # ""
    pc,             \* where Run is
    exit,           \* the return statement Run left through ("none" while running)
    subOpen,        \* pConsumer is open
    closes,         \* calls of pConsumer.Close()
    msgs,           \* pConsumer.Messages(): the records buffered in the channel
    msgsClosed,     \* pConsumer.Messages() has been closed
    brokerNext,     \* lowest offset the broker can deliver next
    ctxDone,        \* ctx.Done() is closed (the task's cancellation signal)
    receiverQuit,   \* the receiver of MessageCh has stopped reading
    messageCount,   \* Run's local messageCount
    cur,            \* the record m of the current iteration
    received,       \* records received from Messages(), in order
    verdict,        \* isMessageOK's result for each received record, in order
    out,            \* records sent on MessageCh, in order
    errs,           \* Progress.OnError calls, in order
    doneCh,         \* values sent on DoneCh, in order
    consumed,       \* Progress.OnMessageConsumed calls (the sizes), in order
    vmNew,          \* calls of otto.New()
    interrupt,      \* functions buffered in vm.Interrupt (capacity 1)
    wdLive,         \* watchdog goroutines in their select, evaluation running
    wdStale,        \* watchdog goroutines in their select, evaluation returned
    wdSending,      \* watchdog goroutines that took <-timer.C, at the Interrupt send
    \* Two tasks with the same script (SandboxSpec):
    sbAlloc,        \* VMs otto.New() has returned so far
    sbVm,           \* per task: the vm its isMessageOk closure captured (0: none yet)
    sbHeap,         \* per VM: the global variable the script reads and writes
    sbSeen,         \* per task: what the script read in each of its evaluations
    \* One call of getValue (ValueSpec):
    value,          \* the argument value []byte
    returned,       \* getValue has returned
    vType,          \* the valueType returned
    embedding       \* the DirectEmbedding returned

runVars == <<Req, hasScript, pc, exit, subOpen, closes, msgs, msgsClosed, brokerNext,
          ctxDone, receiverQuit, messageCount, cur, received, verdict, out, errs,
          doneCh, consumed, vmNew, interrupt, wdLive, wdStale, wdSending>>

sbVars == <<sbAlloc, sbVm, sbHeap, sbSeen>>

gvVars == <<value, returned, vType, embedding>>

\* The variables that stand still while Run is modelled.
auxVars == <<sbVars, gvVars>>

vars == <<runVars, auxVars>>

envVars == <<msgs, msgsClosed, brokerNext, ctxDone, receiverQuit>>
wdVars == <<interrupt, wdLive, wdStale, wdSending>>
logVars == <<received, verdict, out, errs, doneCh, consumed>>

\* Run has not reached a return statement: the environment's steps are
\* modelled up to there, nothing after it reads them.
Running == pc \in {"start", "setup", "loop", "call", "send"}

\* The value sent on DoneCh: struct{}{}.
Unit == "struct{}"

\* The partition's content: len(m.Key) and len(m.Value) of the record at
\* offset o (a nil key at some offsets, a nil value at others).
KeyLen(o) == o % 3
ValLen(o) == (o + 2) % 3

\* A record of the subscription (sarama.ConsumerMessage), by its offset.
Record(o) == [offset |-> o, keyLen |-> KeyLen(o), valLen |-> ValLen(o)]

PartitionConsumeRequest ==
    { r \in [StartOffset : 0..MaxStart, EndOffset : 0..MaxOffset,
             MaxMessageCount : 0..MaxCount] : r.StartOffset <= r.EndOffset }

\* The two partition tasks of the two-task model.
Tasks == {1, 2}

\* A global variable no script has written yet.
Undefined == [by |-> 0, val |-> 0]

\* No task has set up its interpreter.
SandboxIdle ==
    /\ sbAlloc = 0
    /\ sbVm = [t \in Tasks |-> 0]
    /\ sbHeap = [i \in 1..Cardinality(Tasks) |-> Undefined]
    /\ sbSeen = [t \in Tasks |-> <<>>]

\* Lines 19-25: the value types.
valueTypeJSON == "json"
valueTypeXML == "xml"
valueTypeText == "text"
valueTypeBinary == "binary"

\* Line 187: DirectEmbedding{ValueType: t, Value: v}
DirectEmbedding(t, v) == [ValueType |-> t, Value |-> v]

\* getValue has not been called.
ValueIdle ==
    /\ value = <<>>
    /\ returned = FALSE
    /\ vType = ""
    /\ embedding = DirectEmbedding("", <<>>)

ErrKinds == {"parseKey", "parseValue", "evaluate", "cast", "timeout"}

\* Run's variables before Run is called.
RunInit ==
    /\ Req \in PartitionConsumeRequest
    /\ hasScript \in BOOLEAN
    /\ pc = "start"
    /\ exit = "none"
    /\ subOpen = FALSE
    /\ closes = 0
    /\ msgs = <<>>
    /\ msgsClosed = FALSE
    /\ brokerNext = Req.StartOffset
    /\ ctxDone = FALSE
    /\ receiverQuit = FALSE
    /\ messageCount = 0
    /\ cur = Record(Req.StartOffset)
    /\ received = <<>>
    /\ verdict = <<>>
    /\ out = <<>>
    /\ errs = <<>>
    /\ doneCh = <<>>
    /\ consumed = <<>>
    /\ vmNew = 0
    /\ interrupt = 0
    /\ wdLive = 0
    /\ wdStale = 0
    /\ wdSending = 0

Init ==
    /\ RunInit
    /\ SandboxIdle
    /\ ValueIdle

\* ----------------------------------------------------------------- helpers

\* Mutant of MessageSize: the key is left out.
MessageSizeValueOnly(m) == m.valLen

\* Line 124: messageSize := len(m.Key) + len(m.Value)
MessageSize(m) == m.keyLen + m.valLen

\* Line 125: p.Progress.OnMessageConsumed(int64(messageSize))
OnMessageConsumed(m) == consumed' = Append(consumed, MessageSize(m))

\* Progress.OnError(msg), by the kind of the failure reported.
OnError(kind) == errs' = Append(errs, kind)

\* Mutant of Return: the return skips the deferred Close.
ReturnNoClose(path) ==
    /\ exit' = path
    /\ pc' = "signal"

\* A return statement of Run after pConsumer's deferred Close was registered.
Return(path) ==
    /\ exit' = path
    /\ pc' = "closing"

\* Mutant of StopCondition: > for >= on the offset.
StopConditionStrict(m, count) ==
    \/ m.offset > Req.EndOffset
    \/ count = Req.MaxMessageCount

\* Line 172: m.Offset >= p.Req.EndOffset || messageCount == p.Req.MaxMessageCount
StopCondition(m, count) ==
    \/ m.offset >= Req.EndOffset
    \/ count = Req.MaxMessageCount

\* Lines 172-174 and the loop's next iteration.
CheckStop(m, count) ==
    IF StopCondition(m, count)
    THEN Return("bounds")
    ELSE /\ pc' = "loop"
         /\ exit' = exit

\* isMessageOk's deferred cancel(): the evaluation's watchdog, when it is still
\* in its select, now has ctx.Done() ready.
CancelWatchdog ==
    /\ wdLive' = 0
    /\ wdStale' = wdStale + wdLive

\* Lines 159-170 after isOK: count the message and go to the send.
Accepted(m) ==
    /\ messageCount' = messageCount + 1
    /\ pc' = "send"
    /\ exit' = exit

\* Mutant of Rejected: isOK is ignored, the record is counted and sent.
RejectedCounts(m) == Accepted(m)

\* Lines 159, 172 after !isOK.
Rejected(m) ==
    /\ messageCount' = messageCount
    /\ CheckStop(m, messageCount)

\* ------------------------------------------------------------- Run: set-up

\* Lines 95-105: ConsumePartition succeeds, the deferred Close is registered.
OpenOk ==
    /\ pc = "start"
    /\ subOpen' = TRUE
    /\ pc' = "setup"
    /\ UNCHANGED <<auxVars, Req, hasScript, vmNew, exit, closes, messageCount, cur>>
    /\ UNCHANGED envVars
    /\ UNCHANGED wdVars
    /\ UNCHANGED logVars

\* Mutant of OpenFail: the return is taken before the DoneCh defer exists.
OpenFailNoSignal ==
    /\ pc = "start"
    /\ OnError("open")
    /\ exit' = "openFail"
    /\ pc' = "done"
    /\ UNCHANGED <<auxVars, Req, hasScript, vmNew, subOpen, closes, messageCount, cur>>
    /\ UNCHANGED envVars
    /\ UNCHANGED wdVars
    /\ UNCHANGED <<received, consumed, verdict, out, doneCh>>

\* Lines 95-100: ConsumePartition fails; only the DoneCh defer is registered.
OpenFail ==
    /\ pc = "start"
    /\ OnError("open")
    /\ exit' = "openFail"
    /\ pc' = "signal"
    /\ UNCHANGED <<auxVars, Req, hasScript, vmNew, subOpen, closes, messageCount, cur>>
    /\ UNCHANGED envVars
    /\ UNCHANGED wdVars
    /\ UNCHANGED <<received, consumed, verdict, out, doneCh>>

\* Mutant of SetupOk: the empty-code test is missing and a VM is made always.
SetupOkCompiles ==
    /\ pc = "setup"
    /\ vmNew' = vmNew + 1
    /\ pc' = "loop"
    /\ UNCHANGED <<auxVars, Req, hasScript, exit, subOpen, closes, messageCount, cur>>
    /\ UNCHANGED envVars
    /\ UNCHANGED wdVars
    /\ UNCHANGED logVars

\* Lines 108, 227-231 and 233-245, 250-304: SetupInterpreter returns a closure;
\* with a script it is built around a VM of its own (vm := otto.New()).
SetupOk ==
    /\ pc = "setup"
    /\ vmNew' = IF hasScript THEN vmNew + 1 ELSE vmNew
    /\ pc' = "loop"
    /\ UNCHANGED <<auxVars, Req, hasScript, exit, subOpen, closes, messageCount, cur>>
    /\ UNCHANGED envVars
    /\ UNCHANGED wdVars
    /\ UNCHANGED logVars

\* Mutant of SetupFail: the return after OnError is missing.
SetupFailContinues ==
    /\ pc = "setup"
    /\ hasScript
    /\ vmNew' = vmNew + 1
    /\ OnError("setup")
    /\ pc' = "loop"
    /\ UNCHANGED <<auxVars, Req, hasScript, exit, subOpen, closes, messageCount, cur>>
    /\ UNCHANGED envVars
    /\ UNCHANGED wdVars
    /\ UNCHANGED <<received, consumed, verdict, out, doneCh>>

\* Lines 108-113, 237-245: vm.Run(code) or vm.Object fails.
SetupFail ==
    /\ pc = "setup"
    /\ hasScript
    /\ vmNew' = vmNew + 1
    /\ OnError("setup")
    /\ Return("setupFail")
    /\ UNCHANGED <<auxVars, Req, hasScript, subOpen, closes, messageCount, cur>>
    /\ UNCHANGED envVars
    /\ UNCHANGED wdVars
    /\ UNCHANGED <<received, consumed, verdict, out, doneCh>>

\* ---------------------------------------------------------- Run: the loop

\* Lines 118, 124-158 without a script: the dummy closure accepts (line 230).
RecvNoScript ==
    /\ pc = "loop"
    /\ ~hasScript
    /\ msgs # <<>>
    /\ LET m == Head(msgs) IN
        /\ msgs' = Tail(msgs)
        /\ cur' = m
        /\ received' = Append(received, m)
        /\ OnMessageConsumed(m)
        /\ verdict' = Append(verdict, "accept")
        /\ Accepted(m)
    /\ UNCHANGED <<auxVars, Req, hasScript, vmNew, subOpen, closes>>
    /\ UNCHANGED <<msgsClosed, brokerNext, ctxDone, receiverQuit>>
    /\ UNCHANGED wdVars
    /\ UNCHANGED <<out, errs, doneCh>>

\* Lines 118, 124-150, 253-289 with a script: the watchdog goroutine is started
\* and key and value parse; the script call is next.
RecvCall ==
    /\ pc = "loop"
    /\ hasScript
    /\ msgs # <<>>
    /\ LET m == Head(msgs) IN
        /\ msgs' = Tail(msgs)
        /\ cur' = m
        /\ received' = Append(received, m)
        /\ OnMessageConsumed(m)
    /\ wdLive' = wdLive + 1
    /\ pc' = "call"
    /\ UNCHANGED <<auxVars, Req, hasScript, vmNew, exit, subOpen, closes, messageCount>>
    /\ UNCHANGED <<msgsClosed, brokerNext, ctxDone, receiverQuit>>
    /\ UNCHANGED <<interrupt, wdStale, wdSending>>
    /\ UNCHANGED <<verdict, out, errs, doneCh>>

\* Lines 118, 124-158, 253-289: args.Key.Parse() or args.Value.Parse() fails;
\* the watchdog was started and is cancelled on return.
RecvParseFail(kind) ==
    /\ pc = "loop"
    /\ hasScript
    /\ msgs # <<>>
    /\ LET m == Head(msgs) IN
        /\ msgs' = Tail(msgs)
        /\ cur' = m
        /\ received' = Append(received, m)
        /\ OnMessageConsumed(m)
    /\ verdict' = Append(verdict, kind)
    /\ wdStale' = wdStale + 1
    /\ OnError("filter")
    /\ Return("filterError")
    /\ UNCHANGED <<auxVars, Req, hasScript, vmNew, subOpen, closes, messageCount>>
    /\ UNCHANGED <<msgsClosed, brokerNext, ctxDone, receiverQuit>>
    /\ UNCHANGED <<interrupt, wdLive, wdSending>>
    /\ UNCHANGED <<out, doneCh>>

\* Mutant of RecvClosed: the return after OnError is missing.
RecvClosedNoReturn ==
    /\ pc = "loop"
    /\ msgs = <<>>
    /\ msgsClosed
    /\ OnError("closed")
    /\ UNCHANGED <<auxVars, Req, hasScript, vmNew, pc, exit, subOpen, closes, messageCount, cur>>
    /\ UNCHANGED envVars
    /\ UNCHANGED wdVars
    /\ UNCHANGED <<received, consumed, verdict, out, doneCh>>

\* Lines 118-123: the record channel is closed.
RecvClosed ==
    /\ pc = "loop"
    /\ msgs = <<>>
    /\ msgsClosed
    /\ OnError("closed")
    /\ Return("chanClosed")
    /\ UNCHANGED <<auxVars, Req, hasScript, vmNew, subOpen, closes, messageCount, cur>>
    /\ UNCHANGED envVars
    /\ UNCHANGED wdVars
    /\ UNCHANGED <<received, consumed, verdict, out, doneCh>>

\* Lines 175-177: the select takes <-ctx.Done().
CancelAtRecv ==
    /\ pc = "loop"
    /\ ctxDone
    /\ Return("cancelRecv")
    /\ UNCHANGED <<auxVars, Req, hasScript, vmNew, subOpen, closes, messageCount, cur>>
    /\ UNCHANGED envVars
    /\ UNCHANGED wdVars
    /\ UNCHANGED logVars

\* ------------------------------------------------- isMessageOk: the script

\* Lines 292-301, 152, 159-174: the script returns and ToBoolean gives isOk.
ScriptReturn(isOk) ==
    /\ pc = "call"
    /\ CancelWatchdog
    /\ verdict' = Append(verdict, IF isOk THEN "accept" ELSE "reject")
    /\ IF isOk THEN Accepted(cur) ELSE Rejected(cur)
    /\ UNCHANGED <<auxVars, Req, hasScript, vmNew, subOpen, closes, cur>>
    /\ UNCHANGED envVars
    /\ UNCHANGED <<interrupt, wdSending>>
    /\ UNCHANGED <<received, consumed, out, errs, doneCh>>

\* Mutant of ScriptError: the error is skipped and the loop continues.
ScriptErrorSkips(kind) ==
    /\ pc = "call"
    /\ CancelWatchdog
    /\ verdict' = Append(verdict, kind)
    /\ messageCount' = messageCount
    /\ CheckStop(cur, messageCount)
    /\ UNCHANGED <<auxVars, Req, hasScript, vmNew, subOpen, closes, cur>>
    /\ UNCHANGED envVars
    /\ UNCHANGED <<interrupt, wdSending>>
    /\ UNCHANGED <<received, consumed, out, errs, doneCh>>

\* Lines 292-299, 152-158: interpreter.Call or val.ToBoolean returns an error.
ScriptError(kind) ==
    /\ pc = "call"
    /\ CancelWatchdog
    /\ verdict' = Append(verdict, kind)
    /\ OnError("filter")
    /\ Return("filterError")
    /\ UNCHANGED <<auxVars, Req, hasScript, vmNew, subOpen, closes, messageCount, cur>>
    /\ UNCHANGED envVars
    /\ UNCHANGED <<interrupt, wdSending>>
    /\ UNCHANGED <<received, consumed, out, doneCh>>

\* Lines 257-265, 273, 152-158: the VM takes the function off vm.Interrupt and
\* runs it; the panic is recovered as the timeout error.
ScriptInterrupted ==
    /\ pc = "call"
    /\ interrupt = 1
    /\ interrupt' = 0
    /\ CancelWatchdog
    /\ verdict' = Append(verdict, "timeout")
    /\ OnError("filter")
    /\ Return("filterError")
    /\ UNCHANGED <<auxVars, Req, hasScript, vmNew, subOpen, closes, messageCount, cur>>
    /\ UNCHANGED envVars
    /\ UNCHANGED wdSending
    /\ UNCHANGED <<received, consumed, out, doneCh>>

\* ----------------------------------------------------------- Run: the send

\* Mutant of SendMessage: the message goes in front of those already sent.
SendMessageReordered ==
    /\ pc = "send"
    /\ ~receiverQuit
    /\ out' = <<cur>> \o out
    /\ CheckStop(cur, messageCount)
    /\ UNCHANGED <<auxVars, Req, hasScript, vmNew, subOpen, closes, messageCount, cur>>
    /\ UNCHANGED envVars
    /\ UNCHANGED wdVars
    /\ UNCHANGED <<received, consumed, verdict, errs, doneCh>>

\* Lines 164-174: p.MessageCh <- topicMessage, then the stop condition.
SendMessage ==
    /\ pc = "send"
    /\ ~receiverQuit
    /\ out' = Append(out, cur)
    /\ CheckStop(cur, messageCount)
    /\ UNCHANGED <<auxVars, Req, hasScript, vmNew, subOpen, closes, messageCount, cur>>
    /\ UNCHANGED envVars
    /\ UNCHANGED wdVars
    /\ UNCHANGED <<received, consumed, verdict, errs, doneCh>>

\* Mutant of CancelAtSend: the pending message is still delivered.
CancelAtSendDelivers ==
    /\ pc = "send"
    /\ ctxDone
    /\ out' = Append(out, cur)
    /\ Return("cancelSend")
    /\ UNCHANGED <<auxVars, Req, hasScript, vmNew, subOpen, closes, messageCount, cur>>
    /\ UNCHANGED envVars
    /\ UNCHANGED wdVars
    /\ UNCHANGED <<received, consumed, verdict, errs, doneCh>>

\* Mutant of CancelAtSend: the send is a plain p.MessageCh <- topicMessage.
CancelAtSendMissing ==
    /\ pc = "send"
    /\ FALSE
    /\ UNCHANGED vars

\* Lines 164-166: the inner select takes <-ctx.Done().
CancelAtSend ==
    /\ pc = "send"
    /\ ctxDone
    /\ Return("cancelSend")
    /\ UNCHANGED <<auxVars, Req, hasScript, vmNew, subOpen, closes, messageCount, cur>>
    /\ UNCHANGED envVars
    /\ UNCHANGED wdVars
    /\ UNCHANGED logVars

\* ------------------------------------------------------- Run: the defers

\* Lines 101-105: the deferred pConsumer.Close().
Close ==
    /\ pc = "closing"
    /\ subOpen' = FALSE
    /\ closes' = closes + 1
    /\ pc' = "signal"
    /\ UNCHANGED <<auxVars, Req, hasScript, vmNew, exit, messageCount, cur>>
    /\ UNCHANGED envVars
    /\ UNCHANGED wdVars
    /\ UNCHANGED logVars

\* Mutant of SignalDone: the value sent names the return taken.
SignalDoneOutcome ==
    /\ pc = "signal"
    /\ doneCh' = Append(doneCh, exit)
    /\ pc' = "done"
    /\ UNCHANGED <<auxVars, Req, hasScript, vmNew, exit, subOpen, closes, messageCount, cur>>
    /\ UNCHANGED envVars
    /\ UNCHANGED wdVars
    /\ UNCHANGED <<received, consumed, verdict, out, errs>>

\* Lines 90-92: the deferred p.DoneCh <- struct{}{}; Run has returned after it.
SignalDone ==
    /\ pc = "signal"
    /\ doneCh' = Append(doneCh, Unit)
    /\ pc' = "done"
    /\ UNCHANGED <<auxVars, Req, hasScript, vmNew, exit, subOpen, closes, messageCount, cur>>
    /\ UNCHANGED envVars
    /\ UNCHANGED wdVars
    /\ UNCHANGED <<received, consumed, verdict, out, errs>>

\* ------------------------------------------------ the watchdog goroutines

\* Lines 269-272: the timer expires while the evaluation runs.
WatchdogTimeout ==
    /\ wdLive > 0
    /\ wdLive' = wdLive - 1
    /\ wdSending' = wdSending + 1
    /\ UNCHANGED <<auxVars, Req, hasScript, vmNew, pc, exit, subOpen, closes, messageCount, cur>>
    /\ UNCHANGED envVars
    /\ UNCHANGED <<interrupt, wdStale>>
    /\ UNCHANGED logVars

\* Lines 271-272: timer.C and ctx.Done() are both ready and the select takes
\* timer.C.
WatchdogLateTimeout ==
    /\ wdStale > 0
    /\ wdStale' = wdStale - 1
    /\ wdSending' = wdSending + 1
    /\ UNCHANGED <<auxVars, Req, hasScript, vmNew, pc, exit, subOpen, closes, messageCount, cur>>
    /\ UNCHANGED envVars
    /\ UNCHANGED <<interrupt, wdLive>>
    /\ UNCHANGED logVars

\* Lines 275-276: the select takes <-ctx.Done().
WatchdogCancelled ==
    /\ wdStale > 0
    /\ wdStale' = wdStale - 1
    /\ UNCHANGED <<auxVars, Req, hasScript, vmNew, pc, exit, subOpen, closes, messageCount, cur>>
    /\ UNCHANGED envVars
    /\ UNCHANGED <<interrupt, wdLive, wdSending>>
    /\ UNCHANGED logVars

\* Mutant of WatchdogSend: the goroutine ends without sending the interrupt.
WatchdogSendLost ==
    /\ wdSending > 0
    /\ wdSending' = wdSending - 1
    /\ UNCHANGED <<auxVars, Req, hasScript, vmNew, pc, exit, subOpen, closes, messageCount, cur>>
    /\ UNCHANGED envVars
    /\ UNCHANGED <<interrupt, wdLive, wdStale>>
    /\ UNCHANGED logVars

\* Lines 234, 273-274: vm.Interrupt <- func() { panic(errTimeout) }; the channel
\* holds one function.
WatchdogSend ==
    /\ wdSending > 0
    /\ interrupt = 0
    /\ interrupt' = 1
    /\ wdSending' = wdSending - 1
    /\ UNCHANGED <<auxVars, Req, hasScript, vmNew, pc, exit, subOpen, closes, messageCount, cur>>
    /\ UNCHANGED envVars
    /\ UNCHANGED <<wdLive, wdStale>>
    /\ UNCHANGED logVars

\* -------------------------------------------------------- the environment

\* The broker delivers the next record of the partition into Messages().
BrokerDeliver(gap) ==
    /\ Running
    /\ subOpen
    /\ ~msgsClosed
    /\ Len(msgs) < ChanCap
    /\ brokerNext + gap <= MaxOffset
    /\ msgs' = Append(msgs, Record(brokerNext + gap))
    /\ brokerNext' = brokerNext + gap + 1
    /\ UNCHANGED <<auxVars, Req, hasScript, vmNew, pc, exit, subOpen, closes, messageCount, cur>>
    /\ UNCHANGED <<msgsClosed, ctxDone, receiverQuit>>
    /\ UNCHANGED wdVars
    /\ UNCHANGED logVars

\* The subscription's Messages() channel is closed under the task.
BrokerClose ==
    /\ Running
    /\ subOpen
    /\ ~msgsClosed
    /\ msgsClosed' = TRUE
    /\ UNCHANGED <<auxVars, Req, hasScript, vmNew, pc, exit, subOpen, closes, messageCount, cur>>
    /\ UNCHANGED <<msgs, brokerNext, ctxDone, receiverQuit>>
    /\ UNCHANGED wdVars
    /\ UNCHANGED logVars

\* The task's context is cancelled.
Cancel ==
    /\ Running
    /\ ~ctxDone
    /\ ctxDone' = TRUE
    /\ UNCHANGED <<auxVars, Req, hasScript, vmNew, pc, exit, subOpen, closes, messageCount, cur>>
    /\ UNCHANGED <<msgs, msgsClosed, brokerNext, receiverQuit>>
    /\ UNCHANGED wdVars
    /\ UNCHANGED logVars

\* The receiver of MessageCh stops reading.
ReceiverQuit ==
    /\ Running
    /\ ~receiverQuit
    /\ receiverQuit' = TRUE
    /\ UNCHANGED <<auxVars, Req, hasScript, vmNew, pc, exit, subOpen, closes, messageCount, cur>>
    /\ UNCHANGED <<msgs, msgsClosed, brokerNext, ctxDone>>
    /\ UNCHANGED wdVars
    /\ UNCHANGED logVars

\* ---------------------------------------------------------- specification

Run ==
    \/ OpenOk
    \/ OpenFail
    \/ SetupOk
    \/ SetupFail
    \/ RecvNoScript
    \/ RecvCall
    \/ \E kind \in {"parseKey", "parseValue"} : RecvParseFail(kind)
    \/ RecvClosed
    \/ CancelAtRecv
    \/ \E isOk \in BOOLEAN : ScriptReturn(isOk)
    \/ \E kind \in {"evaluate", "cast"} : ScriptError(kind)
    \/ ScriptInterrupted
    \/ SendMessage
    \/ CancelAtSend
    \/ Close
    \/ SignalDone

Watchdog ==
    \/ WatchdogTimeout
    \/ WatchdogLateTimeout
    \/ WatchdogCancelled
    \/ WatchdogSend

Environment ==
    \/ \E gap \in 0..MaxGap : BrokerDeliver(gap)
    \/ BrokerClose
    \/ Cancel
    \/ ReceiverQuit

Next == Run \/ Watchdog \/ Environment

Spec == Init /\ [][Next]_vars

\* The steps of Run that the scheduler takes once they stay enabled: all but
\* the script's own return, which a script may never make (lines 292-301).
RunStep ==
    \/ OpenOk
    \/ OpenFail
    \/ SetupOk
    \/ SetupFail
    \/ RecvNoScript
    \/ RecvCall
    \/ \E kind \in {"parseKey", "parseValue"} : RecvParseFail(kind)
    \/ RecvClosed
    \/ CancelAtRecv
    \/ ScriptInterrupted
    \/ SendMessage
    \/ CancelAtSend
    \/ Close
    \/ SignalDone

\* Spec with the scheduling of the goroutines: a goroutine that can run does
\* run, the 400 ms timer of a running evaluation expires (line 269) and the
\* watchdog's send goes through when vm.Interrupt has room (line 273), and the
\* parent takes the value sent on DoneCh. The broker, the cancellation and the
\* receiver of MessageCh owe nothing.
FairSpec ==
    /\ Spec
    /\ WF_vars(RunStep)
    /\ WF_vars(WatchdogTimeout)
    /\ WF_vars(WatchdogSend)

\* ------------------------------------- two tasks with the same script

\* Mutant of SetupInterpreter: the closure is built around one shared VM
\* (as a p.VM set once by the caller would be) instead of a new one.
SetupInterpreterShared(t) ==
    /\ sbVm[t] = 0
    /\ sbAlloc' = 1
    /\ sbVm' = [sbVm EXCEPT ![t] = 1]
    /\ UNCHANGED <<sbHeap, sbSeen>>
    /\ UNCHANGED runVars
    /\ UNCHANGED gvVars

\* Lines 233-250, 304: task t's SetupInterpreter makes vm := otto.New(), runs
\* the code in it and returns a closure over that vm and its interpreter object.
SetupInterpreter(t) ==
    /\ sbVm[t] = 0
    /\ sbAlloc' = sbAlloc + 1
    /\ sbVm' = [sbVm EXCEPT ![t] = sbAlloc + 1]
    /\ UNCHANGED <<sbHeap, sbSeen>>
    /\ UNCHANGED runVars
    /\ UNCHANGED gvVars

\* Lines 250, 292: one evaluation by task t's closure: the script runs in the
\* captured vm, reads the global variable and writes v to it.
isMessageOk(t, v) ==
    /\ sbVm[t] # 0
    /\ Len(sbSeen[t]) < MaxEvals
    /\ sbSeen' = [sbSeen EXCEPT ![t] = Append(@, sbHeap[sbVm[t]])]
    /\ sbHeap' = [sbHeap EXCEPT ![sbVm[t]] = [by |-> t, val |-> v]]
    /\ UNCHANGED <<sbAlloc, sbVm>>
    /\ UNCHANGED runVars
    /\ UNCHANGED gvVars

\* Both tasks are built (Run's variables stand still at a fixed request).
SandboxInit ==
    /\ Init
    /\ Req = [StartOffset |-> 0, EndOffset |-> 0, MaxMessageCount |-> 0]
    /\ hasScript

SandboxNext ==
    \/ \E t \in Tasks : SetupInterpreter(t)
    \/ \E t \in Tasks, v \in {1, 2} : isMessageOk(t, v)

SandboxSpec == SandboxInit /\ [][SandboxNext]_vars

\* ------------------------------------------------- getValue (lines 185-222)

\* The bytes the values are made of: space, '"', '<', '[', ']', '{', '}', and
\* 0xC3 0xA9 (the UTF-8 encoding of U+00E9; either byte alone is invalid).
Alphabet == {32, 34, 60, 91, 93, 123, 125, 195, 169}

Values == UNION { [1..n -> Alphabet] : n \in 0..MaxLen }

\* s[n:]
Drop(s, n) == SubSeq(s, n + 1, Len(s))

\* strings.HasPrefix(s, p)
HasPrefix(s, p) == Len(s) >= Len(p) /\ SubSeq(s, 1, Len(p)) = p

\* bytes.TrimLeft(s, cutset)
RECURSIVE TrimLeft(_, _)
TrimLeft(s, cutset) ==
    IF s # <<>> /\ Head(s) \in cutset THEN TrimLeft(Tail(s), cutset) ELSE s

\* Line 190: the cutset " \t\r\n".
Cutset == {32, 9, 13, 10}

\* fastjson's skipWS: 0x20, 0x0A, 0x09, 0x0D are skipped.
RECURSIVE skipWS(_)
skipWS(s) ==
    IF s # <<>> /\ Head(s) \in {32, 10, 9, 13} THEN skipWS(Tail(s)) ELSE s

\* A validation function's result: the tail left after what it validated, or
\* an error.
Fail == [ok |-> FALSE, tail |-> <<>>]
Ok(t) == [ok |-> TRUE, tail |-> t]

IsHex(b) == b \in (48..57) \cup (65..70) \cup (97..102)

\* fastjson's validateString after the opening '"': up to the closing '"',
\* escapes being \" \\ \/ \b \f \n \r \t and \uXXXX; the result carries the
\* raw string for the control character scan.
RECURSIVE validateString(_, _)
validateString(s, raw) ==
    IF s = <<>> THEN [ok |-> FALSE, tail |-> <<>>, raw |-> raw]
    ELSE IF Head(s) = 34 THEN [ok |-> TRUE, tail |-> Tail(s), raw |-> raw]
    ELSE IF Head(s) # 92 THEN validateString(Tail(s), Append(raw, Head(s)))
    ELSE IF Len(s) < 2 THEN [ok |-> FALSE, tail |-> <<>>, raw |-> raw]
    ELSE IF s[2] \in {34, 92, 47, 98, 102, 110, 114, 116}
         THEN validateString(Drop(s, 2), raw \o SubSeq(s, 1, 2))
    ELSE IF s[2] = 117 /\ Len(s) >= 6 /\ \A k \in 3..6 : IsHex(s[k])
         THEN validateString(Drop(s, 6), raw \o SubSeq(s, 1, 6))
    ELSE [ok |-> FALSE, tail |-> <<>>, raw |-> raw]

\* fastjson's validateKey: as validateString, without the control character
\* scan.
validateKey(s) ==
    LET r == validateString(s, <<>>) IN IF r.ok THEN Ok(r.tail) ELSE Fail

RECURSIVE skipDigits(_)
skipDigits(s) ==
    IF s # <<>> /\ Head(s) \in 48..57 THEN skipDigits(Tail(s)) ELSE s

\* fastjson's validateNumber: -? digits (no leading 0) (. digits)? ([eE] [+-]? digits)?
validateNumber(s) ==
    LET s1 == IF s # <<>> /\ Head(s) = 45 THEN Tail(s) ELSE s
        s2 == skipDigits(s1)
        s3 == IF s2 # <<>> /\ Head(s2) = 46 THEN skipDigits(Tail(s2)) ELSE s2
        fracOk == s3 = s2 \/ Len(s3) < Len(s2) - 1
        e1 == IF s3 # <<>> /\ Head(s3) \in {101, 69} THEN Tail(s3) ELSE s3
        e2 == IF e1 # s3 /\ e1 # <<>> /\ Head(e1) \in {43, 45} THEN Tail(e1) ELSE e1
        s4 == IF e1 # s3 THEN skipDigits(e2) ELSE s3
        expOk == e1 = s3 \/ Len(s4) < Len(e2)
    IN  IF Len(s2) = Len(s1) THEN Fail
        ELSE IF Head(s1) = 48 /\ Len(s1) - Len(s2) > 1 THEN Fail
        ELSE IF ~fracOk \/ ~expOk THEN Fail
        ELSE Ok(s4)

\* fastjson's validateValue, validateArray and validateObject.
RECURSIVE validateValue(_), validateArrayItems(_), validateObjectItems(_)

validateArray(s) ==
    LET t == skipWS(s) IN
    IF t = <<>> THEN Fail
    ELSE IF Head(t) = 93 THEN Ok(Tail(t))
    ELSE validateArrayItems(t)

validateObject(s) ==
    LET t == skipWS(s) IN
    IF t = <<>> THEN Fail
    ELSE IF Head(t) = 125 THEN Ok(Tail(t))
    ELSE validateObjectItems(t)

validateValue(s) ==
    IF s = <<>> THEN Fail
    ELSE IF Head(s) = 123 THEN validateObject(Tail(s))
    ELSE IF Head(s) = 91 THEN validateArray(Tail(s))
    ELSE IF Head(s) = 34 THEN
        LET r == validateString(Tail(s), <<>>) IN
        IF r.ok /\ \A i \in 1..Len(r.raw) : r.raw[i] >= 32 THEN Ok(r.tail) ELSE Fail
    ELSE IF Head(s) = 116 THEN
        IF HasPrefix(s, <<116, 114, 117, 101>>) THEN Ok(Drop(s, 4)) ELSE Fail
    ELSE IF Head(s) = 102 THEN
        IF HasPrefix(s, <<102, 97, 108, 115, 101>>) THEN Ok(Drop(s, 5)) ELSE Fail
    ELSE IF Head(s) = 110 THEN
        IF HasPrefix(s, <<110, 117, 108, 108>>) THEN Ok(Drop(s, 4)) ELSE Fail
    ELSE validateNumber(s)

\* The loop of validateArray: value, then ',' or ']'.
validateArrayItems(s) ==
    LET v == validateValue(skipWS(s))
        t == skipWS(v.tail)
    IN  IF ~v.ok \/ t = <<>> THEN Fail
        ELSE IF Head(t) = 44 THEN validateArrayItems(Tail(t))
        ELSE IF Head(t) = 93 THEN Ok(Tail(t))
        ELSE Fail

\* The loop of validateObject: "key", ':', value, then ',' or '}'.
validateObjectItems(s) ==
    LET s1 == skipWS(s)
        k == IF s1 # <<>> /\ Head(s1) = 34 THEN validateKey(Tail(s1)) ELSE Fail
        s2 == skipWS(k.tail)
        v == IF s2 # <<>> /\ Head(s2) = 58
              THEN validateValue(skipWS(Tail(s2))) ELSE Fail
        t == skipWS(v.tail)
    IN  IF ~k.ok \/ ~v.ok \/ t = <<>> THEN Fail
        ELSE IF Head(t) = 44 THEN validateObjectItems(Tail(t))
        ELSE IF Head(t) = 125 THEN Ok(Tail(t))
        ELSE Fail

\* Line 198: fastjson.Validate(s) = nil: one value between optional
\* whitespace. The bytes of a string are not checked to be UTF-8.
Validate(s) ==
    LET v == validateValue(skipWS(s)) IN v.ok /\ skipWS(v.tail) = <<>>

\* Line 215: utf8.Valid(p)
RECURSIVE Valid(_)
Valid(p) ==
    IF p = <<>> THEN TRUE
    ELSE IF Head(p) < 128 THEN Valid(Tail(p))
    ELSE LET b == Head(p)
             size == IF b \in 194..223 THEN 2
                     ELSE IF b \in 224..239 THEN 3
                     ELSE IF b \in 240..244 THEN 4
                     ELSE 0
             lo == IF b = 224 THEN 160 ELSE IF b = 240 THEN 144 ELSE 128
             hi == IF b = 237 THEN 159 ELSE IF b = 244 THEN 143 ELSE 191
         IN  /\ size # 0
             /\ Len(p) >= size
             /\ p[2] \in lo..hi
             /\ \A k \in 3..size : p[k] \in 128..191
             /\ Valid(Drop(p, size))

\* base64.StdEncoding's alphabet: A-Z a-z 0-9 + /
encodeStd(i) ==
    IF i < 26 THEN 65 + i
    ELSE IF i < 52 THEN 71 + i
    ELSE IF i < 62 THEN i - 4
    ELSE IF i = 62 THEN 43
    ELSE 47

\* Line 220: base64.StdEncoding.EncodeToString(src), padded with '='.
RECURSIVE EncodeToString(_)
EncodeToString(src) ==
    IF src = <<>> THEN <<>>
    ELSE IF Len(src) = 1 THEN
        <<encodeStd(src[1] \div 4), encodeStd((src[1] % 4) * 16), 61, 61>>
    ELSE IF Len(src) = 2 THEN
        <<encodeStd(src[1] \div 4),
          encodeStd((src[1] % 4) * 16 + src[2] \div 16),
          encodeStd((src[2] % 16) * 4), 61>>
    ELSE <<encodeStd(src[1] \div 4),
           encodeStd((src[1] % 4) * 16 + src[2] \div 16),
           encodeStd((src[2] % 16) * 4 + src[3] \div 64),
           encodeStd(src[3] % 64)>> \o EncodeToString(Drop(src, 3))

\* Line 208: what xj.Convert returns is the library's: an error, or the JSON
\* text it wrote for the document ({} and "" stand for the texts, each with
\* the encoder's newline).
ConvertOutcomes ==
    { [ok |-> FALSE, json |-> <<>>],
      [ok |-> TRUE, json |-> <<123, 125, 10>>],
      [ok |-> TRUE, json |-> <<34, 34, 10>>] }

\* Mutant of JSONEmbedding: the embedding holds the untrimmed value.
JSONEmbeddingUntrimmed(val, trimmed) == DirectEmbedding(valueTypeJSON, val)

\* Line 200: DirectEmbedding{ValueType: valueTypeJSON, Value: trimmed}
JSONEmbedding(val, trimmed) == DirectEmbedding(valueTypeJSON, trimmed)

\* Lines 185-222: getValue(value), conv being what xj.Convert returns when it
\* is called; the result is the pair returned.
getValue(val, conv) ==
    LET trimmed == TrimLeft(val, Cutset)
        startsWithJSON == trimmed[1] = 91 \/ trimmed[1] = 123
        startsWithXML == trimmed[1] = 60
    IN  IF Len(val) = 0 THEN <<"", DirectEmbedding("", val)>>
        ELSE IF Len(trimmed) = 0
            THEN <<valueTypeText, DirectEmbedding(valueTypeText, val)>>
        ELSE IF startsWithJSON /\ Validate(trimmed)
            THEN <<valueTypeJSON, JSONEmbedding(val, trimmed)>>
        ELSE IF startsWithXML /\ conv.ok
            THEN <<valueTypeXML, DirectEmbedding(valueTypeXML, conv.json)>>
        ELSE IF Valid(val)
            THEN <<valueTypeText, DirectEmbedding(valueTypeText, val)>>
        ELSE <<valueTypeBinary,
               DirectEmbedding(valueTypeBinary, EncodeToString(val))>>

\* One call of getValue on the value drawn.
CallGetValue(conv) ==
    /\ ~returned
    /\ returned' = TRUE
    /\ vType' = getValue(value, conv)[1]
    /\ embedding' = getValue(value, conv)[2]
    /\ UNCHANGED value
    /\ UNCHANGED runVars
    /\ UNCHANGED sbVars

\* Every byte sequence up to MaxLen is an argument (Run's variables stand
\* still at a fixed request).
ValueInit ==
    /\ RunInit
    /\ Req = [StartOffset |-> 0, EndOffset |-> 0, MaxMessageCount |-> 0]
    /\ ~hasScript
    /\ SandboxIdle
    /\ value \in Values
    /\ returned = FALSE
    /\ vType = ""
    /\ embedding = DirectEmbedding("", <<>>)

ValueNext == \E conv \in ConvertOutcomes : CallGetValue(conv)

ValueSpec == ValueInit /\ [][ValueNext]_vars

\* ------------------------------------------------------------------ claims

\* The return statements that follow a Progress.OnError call.
Fatal == {"openFail", "setupFail", "chanClosed", "filterError"}

\* The OnError call each of them makes.
ErrOf(path) ==
    CASE path = "openFail" -> "open"
      [] path = "setupFail" -> "setup"
      [] path = "chanClosed" -> "closed"
      [] path = "filterError" -> "filter"
      [] OTHER -> "none"

ExitPaths == Fatal \cup {"bounds", "cancelRecv", "cancelSend"}

Last(s) == s[Len(s)]

RECURSIVE IsSubseq(_, _)
IsSubseq(s, t) ==
    IF s = <<>> THEN TRUE
    ELSE IF t = <<>> THEN FALSE
    ELSE IF Head(s) = Head(t) THEN IsSubseq(Tail(s), Tail(t))
    ELSE IsSubseq(s, Tail(t))

Increasing(s) == \A i, j \in 1..Len(s) : i < j => s[i].offset < s[j].offset

Accepts == {j \in 1..Len(verdict) : verdict[j] = "accept"}

\* C1: on every exit path of Run the completion signal is sent on DoneCh
\* exactly once: never twice, and once Run has returned (through any of its
\* seven return statements) exactly one value has been sent; none is sent
\* before Run returns.
C1_DoneExactlyOnce ==
    /\ Len(doneCh) <= 1
    /\ (pc = "done") <=> (Len(doneCh) = 1)
    /\ pc = "done" => exit \in ExitPaths

\* C1 witness: a run ended by cancellation at the output send has signalled.
C1_Witness == pc = "done" /\ exit = "cancelSend" /\ Len(doneCh) = 1

\* C2: a subscription that was opened is closed exactly once on every exit
\* path, before the completion signal: when the signal has been sent no
\* subscription is open, and a run that opened one has closed it once.
C2_CloseBeforeDone ==
    /\ closes <= 1
    /\ doneCh # <<>> => ~subOpen
    /\ (doneCh # <<>> /\ exit # "openFail") => closes = 1
    /\ exit = "openFail" => closes = 0
    /\ subOpen => closes = 0

\* C2 witness: a run that opened the subscription and ended by a filter error
\* has closed it and signalled.
C2_Witness ==
    /\ pc = "done" /\ exit = "filterError"
    /\ closes = 1 /\ ~subOpen /\ Len(doneCh) = 1

\* C3 (the claim as stated): the number of messages sent on the output
\* channel never exceeds MaxMessageCount.
C3_NeverExceedsMax == Len(out) <= Req.MaxMessageCount

\* C4: the stop condition is checked after every record that was accepted or
\* rejected: Run waits for another record only while the last record's offset
\* is below EndOffset and the count differs from MaxMessageCount; no record is
\* received after one at or past EndOffset; a run ended by the stop condition
\* made no OnError call and has emitted its last record if the filter accepted
\* it; with every record accepted and MaxMessageCount not reached, such a run
\* emitted exactly the records up to the first at or past EndOffset.
C4_StopAfterEachRecord ==
    /\ \A i \in 1..Len(received) :
           i < Len(received) => received[i].offset < Req.EndOffset
    /\ (pc = "loop" /\ received # <<>>) =>
           /\ Last(received).offset < Req.EndOffset
           /\ messageCount # Req.MaxMessageCount
    /\ exit = "bounds" =>
           /\ errs = <<>>
           /\ Len(verdict) = Len(received)
           /\ \/ Last(received).offset >= Req.EndOffset
              \/ messageCount = Req.MaxMessageCount
           /\ Last(verdict) = "accept" =>
                  (out # <<>> /\ Last(out) = Last(received))
           /\ ((\A j \in 1..Len(verdict) : verdict[j] = "accept")
                  /\ messageCount # Req.MaxMessageCount) =>
                  (out = received /\ Last(received).offset >= Req.EndOffset)

\* C4 witness: a run ended by a rejected record at or past EndOffset, after
\* an accepted one below it.
C4_Witness ==
    /\ pc = "done" /\ exit = "bounds"
    /\ Len(received) = 2
    /\ verdict = <<"accept", "reject">>
    /\ Last(received).offset >= Req.EndOffset
    /\ messageCount # Req.MaxMessageCount

\* C5: the messages sent on the output channel are a subsequence of the
\* records received from the subscription, in the same order and none twice;
\* with the broker delivering increasing offsets, emitted offsets increase.
C5_OutputIsSubsequence ==
    /\ IsSubseq(out, received)
    /\ \A i, j \in 1..Len(out) : i < j => out[i] # out[j]
    /\ Increasing(received) => Increasing(out)

\* C5 witness: two messages were emitted and a record between them was not.
C5_Witness ==
    /\ Len(out) = 2
    /\ Len(received) = 3
    /\ out[1] = received[1]
    /\ out[2] = received[3]

\* C6: a record is sent only if the filter returned accept for that record;
\* a rejected record is never sent and is not counted, and a reject that does
\* not meet the stop condition does not end the task: Run goes back to the
\* record wait.
C6_OnlyAcceptedAreSent ==
    /\ \A i \in 1..Len(out) :
           \E j \in Accepts : received[j] = out[i]
    /\ \A j \in 1..Len(verdict) :
           verdict[j] = "reject" => \A i \in 1..Len(out) : out[i] # received[j]
    /\ messageCount = Cardinality(Accepts)
    /\ (/\ verdict # <<>>
        /\ Len(verdict) = Len(received)
        /\ Last(verdict) = "reject"
        /\ Last(received).offset < Req.EndOffset
        /\ messageCount # Req.MaxMessageCount) =>
           exit \in {"none", "chanClosed", "cancelRecv"}

\* C6 witness: of three records the filter rejected the middle one; the other
\* two were sent.
C6_Witness ==
    /\ verdict = <<"accept", "reject", "accept">>
    /\ out = <<received[1], received[3]>>

\* C7: a filter evaluation error on a record is fatal: the record is not
\* emitted, no later record is received, one OnError call reports it and Run
\* returns.
C7_FilterErrorIsFatal ==
    \A j \in 1..Len(verdict) :
        verdict[j] \in ErrKinds =>
            /\ j = Len(received)
            /\ \A i \in 1..Len(out) : out[i] # received[j]
            /\ errs = <<"filter">>
            /\ exit = "filterError"
            /\ pc \in {"closing", "signal", "done"}

\* C7 witness: the second record's evaluation was interrupted by the watchdog
\* after the first was emitted, and the task has ended.
C7_Witness ==
    /\ pc = "done"
    /\ verdict = <<"accept", "timeout">>
    /\ Len(out) = 1

\* C8: OnError is called at most once, exactly once for each fatal return and
\* for no other return, before the completion signal, and no message is sent
\* and no further OnError call is made after it.
C8_OneErrorBeforeDone ==
    [][/\ errs' # errs =>
              /\ errs = <<>>
              /\ doneCh' = <<>>
              /\ exit' \in Fatal
              /\ errs' = <<ErrOf(exit')>>
       /\ errs # <<>> => (out' = out /\ errs' = errs)
       /\ exit' \in Fatal => Len(errs') = 1
       /\ exit' \in ExitPaths \ Fatal => errs' = <<>>
       /\ Len(errs') <= 1]_vars

\* C8 witness: the record channel was closed after a message had been sent;
\* the one OnError call was made and the task has signalled.
C8_Witness ==
    /\ pc = "done" /\ exit = "chanClosed"
    /\ errs = <<"closed">>
    /\ Len(out) = 1

\* C9 (the claim as stated): with the cancellation signal set and Run at one
\* of its wait points, Run makes no OnError call.
C9_CancelIsNoError ==
    [][(ctxDone /\ pc \in {"loop", "send"}) => errs' = errs]_vars

\* C10 (the claim as stated): the completion signal of a run ended by
\* cancellation reports "cancelled".
C10_SignalReportsCancelled ==
    (pc = "done" /\ exit \in {"cancelRecv", "cancelSend"}) =>
        doneCh = <<"cancelled">>

\* C10 (amended): the completion signal carries no outcome: the same empty
\* value is sent whether the run ended by cancellation, by a fatal error or by
\* reaching its bounds; a run ended by a fatal error differs only by its
\* OnError call, and the two other outcomes make none.
C10_SignalCarriesNoOutcome ==
    /\ \A i \in 1..Len(doneCh) : doneCh[i] = Unit
    /\ pc = "done" => (exit \in Fatal <=> errs # <<>>)

\* C10 witness: a run ended by cancellation at the record wait has sent the
\* empty value and made no OnError call.
C10_Witness ==
    /\ pc = "done" /\ exit = "cancelRecv"
    /\ doneCh = <<Unit>>
    /\ errs = <<>>

\* The steps of Run that take <-ctx.Done() (lines 165 and 175).
CancelBranch == CancelAtRecv \/ CancelAtSend

C12_NoSendAfterCancel ==
    [][/\ exit \in {"cancelRecv", "cancelSend"} => out' = out
       /\ (pc = "send" /\ exit' = "cancelSend") =>
              /\ out' = out
              /\ \A i \in 1..Len(out') : out'[i] # cur]_vars

\* C12 witness: the second accepted message was pending at the send when the
\* cancellation branch was taken; only the first was delivered.
C12_Witness ==
    /\ pc = "done" /\ exit = "cancelSend"
    /\ verdict = <<"accept", "accept">>
    /\ out = <<received[1]>>

\* C13: two tasks with the same script each have a sandbox of their own: an
\* evaluation never reads a global variable the other task's script wrote,
\* under any interleaving; within a task the sandbox is reused: the first
\* evaluation finds the variable undefined and every later one finds what the
\* task's previous evaluation wrote.
C13_SandboxPerTask ==
    /\ \A t, u \in Tasks : (t # u /\ sbVm[t] # 0) => sbVm[t] # sbVm[u]
    /\ \A t \in Tasks : \A k \in 1..Len(sbSeen[t]) :
           /\ sbSeen[t][k].by \in {0, t}
           /\ k = 1 => sbSeen[t][k] = Undefined
           /\ k > 1 => sbSeen[t][k].by = t
           /\ k = Len(sbSeen[t]) => sbHeap[sbVm[t]].by = t

\* C13 witness: both tasks have evaluated twice, the second task's first
\* evaluation after the first task's write.
C13_Witness ==
    /\ \A t \in Tasks : Len(sbSeen[t]) = 2
    /\ sbHeap[sbVm[1]] = [by |-> 1, val |-> 1]
    /\ sbHeap[sbVm[2]] = [by |-> 2, val |-> 2]
    /\ sbSeen[2][2] = [by |-> 2, val |-> 1]

\* C14: without a filter script no VM is made and nothing is compiled, every
\* evaluation accepts and none fails (no watchdog is started either), and
\* every record received is emitted: the messages sent are the records
\* received, but for the last one while its send is pending or after the
\* cancellation branch of the send dropped it.
C14_NoScriptAcceptsAll ==
    ~hasScript =>
        /\ vmNew = 0
        /\ Len(verdict) = Len(received)
        /\ \A j \in 1..Len(verdict) : verdict[j] = "accept"
        /\ interrupt = 0 /\ wdLive = 0 /\ wdStale = 0 /\ wdSending = 0
        /\ exit \notin {"setupFail", "filterError"}
        /\ \A i \in 1..Len(errs) : errs[i] \in {"open", "closed"}
        /\ out = IF pc = "send" \/ exit = "cancelSend"
                 THEN SubSeq(received, 1, Len(received) - 1)
                 ELSE received

\* C14 witness: a task without a script reached its bounds having emitted
\* both records it received.
C14_Witness ==
    /\ ~hasScript
    /\ pc = "done" /\ exit = "bounds"
    /\ Len(received) = 2
    /\ out = received

\* C15: a task whose subscription could not be opened or whose script failed
\* to compile made exactly one OnError call, for that failure, and has
\* ended: it received no record, made no OnMessageConsumed call, evaluated
\* nothing and sent no message.
C15_SetupFailureIsSilent ==
    /\ (errs # <<>> /\ errs[1] \in {"open", "setup"}) =>
           /\ Len(errs) = 1
           /\ exit \in {"openFail", "setupFail"}
           /\ errs[1] = ErrOf(exit)
           /\ pc \in {"closing", "signal", "done"}
           /\ received = <<>> /\ consumed = <<>>
           /\ verdict = <<>> /\ out = <<>>
    /\ exit \in {"openFail", "setupFail"} => errs = <<ErrOf(exit)>>

\* C15 witness: the script failed to compile while a record was waiting in
\* the subscription; the task ended without receiving it.
C15_Witness ==
    /\ pc = "done" /\ exit = "setupFail"
    /\ errs = <<"setup">>
    /\ msgs # <<>>
    /\ received = <<>> /\ consumed = <<>> /\ out = <<>>

\* C18 (the claim as stated): when an evaluation starts, every earlier
\* evaluation's watchdog is gone: no function is pending in vm.Interrupt and no
\* watchdog goroutine is at (or blocked in) its send on vm.Interrupt.
C18_NoInterruptAfterReturn ==
    [][(pc = "loop" /\ pc' = "call") => (interrupt = 0 /\ wdSending = 0)]_vars

\* The last evaluation was ended by the watchdog's interrupt.
TimedOut == verdict # <<>> /\ Last(verdict) = "timeout"

\* C19: an evaluation does not last forever, also when the script never
\* returns: the watchdog's interrupt ends it. An interrupted evaluation is
\* returned as the timeout error (Run goes on to its return, the panic is
\* recovered): one OnError call is made, the record is not emitted then or
\* later, and the task terminates.
C19_HangingScriptTimesOut ==
    /\ (pc = "call" \/ TimedOut) ~> (pc # "call" /\ (TimedOut => pc = "done"))
    /\ [][(pc = "call" /\ pc' # "call" /\ interrupt' < interrupt) =>
              /\ verdict' = Append(verdict, "timeout")
              /\ errs' = <<"filter">>
              /\ exit' = "filterError"
              /\ pc' = "closing"]_vars
    /\ [][TimedOut =>
              /\ out' = out
              /\ \A i \in 1..Len(out) : out[i] # Last(received)]_vars

\* C19 witness: the first record's evaluation was interrupted; the task made
\* its one OnError call, emitted nothing and terminated, and no watchdog is
\* left.
C19_Witness ==
    /\ pc = "done" /\ exit = "filterError"
    /\ verdict = <<"timeout">>
    /\ errs = <<"filter">>
    /\ out = <<>>
    /\ interrupt = 0 /\ wdLive = 0 /\ wdStale = 0 /\ wdSending = 0

RECURSIVE Sum(_)
Sum(s) == IF s = <<>> THEN 0 ELSE Head(s) + Sum(Tail(s))

RECURSIVE TotalBytes(_)
TotalBytes(s) ==
    IF s = <<>> THEN 0 ELSE Head(s).keyLen + Head(s).valLen + TotalBytes(Tail(s))

\* C20: OnMessageConsumed is called once for every record received, with
\* len(key) + len(value) of that record and before the record's evaluation:
\* the calls made match the records received one to one, whatever happened
\* to the record afterwards, no evaluation has a result before its record's
\* call, and the sizes reported add up to the bytes received.
C20_ConsumedCountsEveryRecord ==
    /\ Len(consumed) = Len(received)
    /\ \A i \in 1..Len(received) :
           consumed[i] = received[i].keyLen + received[i].valLen
    /\ Len(verdict) <= Len(consumed)
    /\ Sum(consumed) = TotalBytes(received)

\* C20 witness: of three records one was rejected, one was emitted and one
\* was dropped by cancellation at the send; all three were counted.
C20_Witness ==
    /\ pc = "done" /\ exit = "cancelSend"
    /\ verdict = <<"reject", "accept", "accept">>
    /\ Len(out) = 1
    /\ Len(consumed) = 3
    /\ Sum(consumed) = TotalBytes(received)
    /\ Sum(consumed) > 0

\* C16 (the claim as stated): every non-empty value that is valid JSON is
\* returned as json, the embedding holding the value with its leading
\* whitespace trimmed.
C16_ValidJSONIsJSON ==
    (returned /\ value # <<>> /\ Validate(value)) =>
        /\ vType = valueTypeJSON
        /\ embedding = DirectEmbedding(valueTypeJSON, TrimLeft(value, Cutset))

\* C16 (amended): a value is returned as json exactly when its first byte
\* after the leading whitespace is '[' or '{' and the trimmed value validates;
\* the embedding then holds the trimmed value byte for byte. Valid JSON that
\* starts otherwise (a string, a number, true, false, null) is returned as
\* text, or as binary when it is not valid UTF-8.
C16_BracketedJSONIsJSON ==
    returned =>
        LET trimmed == TrimLeft(value, Cutset)
            bracketed == trimmed # <<>> /\ trimmed[1] \in {91, 123}
        IN  /\ (bracketed /\ Validate(trimmed)) <=> vType = valueTypeJSON
            /\ vType = valueTypeJSON =>
                   embedding = DirectEmbedding(valueTypeJSON, trimmed)
            /\ (Validate(value) /\ ~bracketed) =>
                   /\ vType = (IF Valid(value) THEN valueTypeText
                                               ELSE valueTypeBinary)
                   /\ embedding.ValueType = vType
                   /\ Valid(value) => embedding.Value = value

\* C16 witness: " [{}]" was returned as json with the embedding "[{}]".
C16_Witness ==
    /\ returned
    /\ value = <<32, 91, 123, 125, 93>>
    /\ vType = valueTypeJSON
    /\ embedding = DirectEmbedding(valueTypeJSON, <<91, 123, 125, 93>>)

\* base64.StdEncoding's alphabet read backwards (-1: not in the alphabet).
decodeStd(c) ==
    IF c \in 65..90 THEN c - 65
    ELSE IF c \in 97..122 THEN c - 71
    ELSE IF c \in 48..57 THEN c + 4
    ELSE IF c = 43 THEN 62
    ELSE IF c = 47 THEN 63
    ELSE -1

\* base64.StdEncoding.DecodeString(s); <<-1>> stands for an error.
RECURSIVE DecodeString(_)
DecodeString(s) ==
    IF s = <<>> THEN <<>>
    ELSE IF Len(s) < 4 \/ decodeStd(s[1]) < 0 \/ decodeStd(s[2]) < 0 THEN <<-1>>
    ELSE LET a == decodeStd(s[1])
             b == decodeStd(s[2])
             c == decodeStd(s[3])
             d == decodeStd(s[4])
         IN  IF s[3] = 61 /\ s[4] = 61 /\ Len(s) = 4 /\ b % 16 = 0
                 THEN <<a * 4 + b \div 16>>
             ELSE IF c >= 0 /\ s[4] = 61 /\ Len(s) = 4 /\ c % 4 = 0
                 THEN <<a * 4 + b \div 16, (b % 16) * 16 + c \div 4>>
             ELSE IF c >= 0 /\ d >= 0
                 THEN <<a * 4 + b \div 16, (b % 16) * 16 + c \div 4,
                        (c % 4) * 64 + d>> \o DecodeString(Drop(s, 4))
             ELSE <<-1>>

\* C17 (the claim as stated): every value that is not valid UTF-8 is
\* returned as binary, and the embedding decodes from base64 to the value.
C17_InvalidUTF8IsBinary ==
    (returned /\ ~Valid(value)) =>
        /\ vType = valueTypeBinary
        /\ embedding.ValueType = valueTypeBinary
        /\ DecodeString(embedding.Value) = value

====
